---- MODULE Spec2Model ----
(***************************************************************************)
(* DCHero (src/dchero.go): the generic worker pool runWorkers, the         *)
(* cache-backed registry check isUnclaimed/httpHEAD, and the scan pipeline *)
(* main -> checkURLDependencies that nests one pool inside another.        *)
(* The classifier filterManifestURLs and the extraction getDependencies /  *)
(* extractPackagesFromJS work on strings, character by character.          *)
(*                                                                         *)
(* Goroutines are processes; an unbuffered channel operation is a          *)
(* rendezvous (the send and the matching receive are one step); the        *)
(* mutex headMu and the buffered channel sem are explicit.                 *)
(***************************************************************************)
EXTENDS Integers, Sequences, FiniteSets, TLC

\* ------------------------------------------------------------------ bounds

\* PoolSpec: the generic pool runs on 0..MaxItems inputs with a concurrency
\* argument drawn from 0..MaxConc.
MaxItems == 3
MaxConc == 2
\* Spec: the scan reads the -t flag from 0..MaxThreads and at most MaxURLs
\* accepted URLs.
MaxThreads == 2
MaxURLs == 2
\* RaceSpec: this many URLs that name the same package are scanned at once.
MaxCallers == 3
\* FilterSpec: filterManifestURLs reads at most MaxLines lines.
MaxLines == 3

\* ------------------------------------------------------- program constants

\* main clamps the -t flag to 1..100.
MinThreadsFlag == 1
MaxThreadsFlag == 100
\* http.StatusOK and http.StatusFound, the two "exists" answers.
StatusOK == 200
StatusFound == 302
StatusNotFound == 404
\* http.StatusInternalServerError, one more answer that is neither of the two.
StatusServerError == 500

langJS == "js"
langPython == "python"
npmURL == "https://registry.npmjs.org/%s/"
pypiURL == "https://pypi.org/project/%s/"

\* ------------------------------------------------------------------ strings
\* A string is a sequence of one-character strings.

IsSpace(c) == c \in {" ", "\t", "\r", "\n"}

RECURSIVE TrimLeft(_)
TrimLeft(s) ==
    IF s = <<>> THEN <<>>
    ELSE IF IsSpace(Head(s)) THEN TrimLeft(Tail(s)) ELSE s

RECURSIVE TrimRight(_)
TrimRight(s) ==
    IF s = <<>> THEN <<>>
    ELSE IF IsSpace(s[Len(s)]) THEN TrimRight(SubSeq(s, 1, Len(s) - 1)) ELSE s

\* strings.TrimSpace
TrimSpace(s) == TrimRight(TrimLeft(s))

\* strings.HasPrefix
HasPrefix(s, p) == Len(s) >= Len(p) /\ SubSeq(s, 1, Len(p)) = p

\* strings.HasSuffix
HasSuffix(s, p) == Len(s) >= Len(p) /\ SubSeq(s, Len(s) - Len(p) + 1, Len(s)) = p

\* The characters of the model's alphabet in byte order, for sort.Strings.
CharOrder ==
    <<"\t", "\n", "\r", " ", "!", "\"", "#", "'", "(", ")", "+", "-", ".",
      "/", "0", "1", "2", "3", "4", "5", "6", "7", "8", "9", ":", ";", "<",
      "=", ">", "?", "@", "A", "B", "C", "D", "E", "F", "G", "H", "I", "J",
      "K", "L", "M", "N", "O", "P", "Q", "R", "S", "T", "U", "V", "W", "X",
      "Y", "Z", "[", "]", "_", "a", "b", "c", "d", "e", "f", "g", "h", "i",
      "j", "k", "l", "m", "n", "o", "p", "q", "r", "s", "t", "u", "v", "w",
      "x", "y", "z", "~">>

CharRank(c) == CHOOSE i \in 1..Len(CharOrder) : CharOrder[i] = c

\* unicode lower-casing of the alphabet (strings.ToLower, strings.EqualFold)
LowerOf ==
    [A |-> "a", B |-> "b", C |-> "c", D |-> "d", E |-> "e", F |-> "f",
     G |-> "g", H |-> "h", I |-> "i", J |-> "j", K |-> "k", L |-> "l",
     M |-> "m", N |-> "n", O |-> "o", P |-> "p", Q |-> "q", R |-> "r",
     S |-> "s", T |-> "t", U |-> "u", V |-> "v", W |-> "w", X |-> "x",
     Y |-> "y", Z |-> "z"]

UpperChars == DOMAIN LowerOf

LowerChar(c) == IF c \in UpperChars THEN LowerOf[c] ELSE c

ToLower(s) == [i \in 1..Len(s) |-> LowerChar(s[i])]

EqualFold(s, t) == ToLower(s) = ToLower(t)

\* s < t in byte-wise lexicographic order
RECURSIVE StrLess(_, _)
StrLess(s, t) ==
    IF t = <<>> THEN FALSE
    ELSE IF s = <<>> THEN TRUE
    ELSE IF Head(s) = Head(t) THEN StrLess(Tail(s), Tail(t))
    ELSE CharRank(Head(s)) < CharRank(Head(t))

\* sort.Strings of the keys of a set
RECURSIVE SortStrings(_)
SortStrings(S) ==
    IF S = {} THEN <<>>
    ELSE LET m == CHOOSE x \in S : \A y \in S \ {x} : StrLess(x, y)
         IN  <<m>> \o SortStrings(S \ {m})

\* Every order in which a Go map with key set S can be ranged over.
RECURSIVE Perms(_)
Perms(S) ==
    IF S = {} THEN {<<>>}
    ELSE UNION {{<<x>> \o q : q \in Perms(S \ {x})} : x \in S}

\* ---------------------------------------------------------------- variables

VARIABLES
    raw,       \* the lines handed to filterManifestURLs, in order
    mainpc,    \* where main is: "read", "start", "run", "done"; "pool" in
               \* PoolSpec
    threads,   \* *threads after main's clamp
    urls,      \* filtered: the accepted URLs, in order
    pools,     \* one runWorkers invocation per pool id: 0 is main's, u is
               \* the one checkURLDependencies starts for urls[u]
    headCache, \* the status cache: lookup URL -> status
    headMu,    \* the cache's mutex: <<>> when free, else <<pool, worker>>
    fetched,   \* per URL, how getDependencies ended: "none", "fetcherr",
               \* "extracterr", "empty", "ok" (history)
    probes,    \* lookup URL -> number of completed httpClient.Do calls that
               \* returned a response (history)
    output     \* the lines main prints, in order

vars == <<raw, mainpc, threads, urls, pools, headCache, headMu, fetched, probes, output>>

\* ------------------------------------------------------------- runWorkers

PoolIds == 0..(IF MaxURLs > MaxCallers THEN MaxURLs ELSE MaxCallers)

\* if concurrency < 1 { concurrency = 1 }
LimitUnclamped(concurrency) == concurrency

LimitOffByOne(concurrency) == IF concurrency < 1 THEN 2 ELSE concurrency + 1

Limit(concurrency) == IF concurrency < 1 THEN 1 ELSE concurrency

\* A worker goroutine: pc is "recv" (at `for it := range inCh`), "acq" (at
\* `sem <- struct{}{}`), the worker function's own positions, "ret" (at
\* `<-sem`), "send" (at `outCh <- out{...}`) or "done" (returned).
\* it is the index of the item held, val and err what worker(it.t) returned
\* (err 0 is nil), st the status read from the cache or from a response.
IdleWorker == [pc |-> "recv", it |-> 0, val |-> <<>>, err |-> 0, st |-> 0]

NoPool ==
    [state |-> "idle", kind |-> "none", lang |-> "", concurrency |-> 0,
     inputs |-> <<>>, limit |-> 0, next |-> 1, inClosed |-> FALSE,
     w |-> <<>>, sem |-> 0, wg |-> 0, outClosed |-> FALSE,
     results |-> <<>>, firstErr |-> 0, calls |-> <<>>, began |-> <<>>,
     rets |-> <<>>]

\* The state right after runWorkers has started its goroutines: the producer
\* is at inputs[1], `limit` workers wait on inCh, wg counts them, sem (of
\* capacity limit) is empty, and the caller is at `for o := range outCh`.
\* calls[i] counts the invocations of worker on inputs[i], began[i] tells
\* whether the lookup URL of inputs[i] was cached ("cached") or not ("absent")
\* when its invocation began, and rets[i] is what the invocation returned
\* (history).
NewPool(inputs, concurrency, kind, lang) ==
    [state |-> "running", kind |-> kind, lang |-> lang,
     concurrency |-> concurrency,
     inputs |-> inputs, limit |-> Limit(concurrency), next |-> 1,
     inClosed |-> FALSE,
     w |-> [i \in 1..Limit(concurrency) |-> IdleWorker],
     sem |-> 0, wg |-> Limit(concurrency), outClosed |-> FALSE,
     results |-> <<>>, firstErr |-> 0,
     calls |-> [i \in 1..Len(inputs) |-> 0],
     began |-> [i \in 1..Len(inputs) |-> "none"],
     rets |-> [i \in 1..Len(inputs) |-> <<>>]]

Workers(p) == DOMAIN pools[p].w

\* The index the producer sends after inputs[i].
NextIndexSkipping(i) == i + 2

NextIndex(i) == i + 1

\* The workers blocked in `for it := range inCh` run the same closure and
\* hold no state of their own: which of them a send or a close wakes first
\* cannot be told apart, and the model wakes the lowest-numbered one.
FirstWaiting(p, w) ==
    /\ pools[p].w[w].pc = "recv"
    /\ \A v \in DOMAIN pools[p].w : v < w => pools[p].w[v].pc /= "recv"

\* inCh <- item{i: idx, t: v} meeting `for it := range inCh` of worker w.
Dispatch(p, w) ==
    /\ pools[p].state = "running"
    /\ ~pools[p].inClosed
    /\ pools[p].next <= Len(pools[p].inputs)
    /\ FirstWaiting(p, w)
    /\ pools' = [pools EXCEPT ![p].next = NextIndex(@),
                              ![p].w[w].pc = "acq",
                              ![p].w[w].it = pools[p].next]
    /\ UNCHANGED <<raw, mainpc, threads, urls, headCache, headMu, fetched, probes,
                   output>>

\* close(inCh) once the producer's loop is over.
CloseIn(p) ==
    /\ pools[p].state = "running"
    /\ ~pools[p].inClosed
    /\ pools[p].next > Len(pools[p].inputs)
    /\ pools' = [pools EXCEPT ![p].inClosed = TRUE]
    /\ UNCHANGED <<raw, mainpc, threads, urls, headCache, headMu, fetched, probes,
                   output>>

\* defer wg.Done()
WgDoneMissing(wg) == wg

WgDone(wg) == wg - 1

\* The range over the closed inCh ends: the worker returns, defer wg.Done().
WorkerExit(p, w) ==
    /\ pools[p].state = "running"
    /\ pools[p].inClosed
    /\ FirstWaiting(p, w)
    /\ pools' = [pools EXCEPT ![p].w[w].pc = "done",
                              ![p].wg = WgDone(@)]
    /\ UNCHANGED <<raw, mainpc, threads, urls, headCache, headMu, fetched, probes,
                   output>>

\* The lookup URL isUnclaimed builds: fmt.Sprintf(npmURL, pkg) for js,
\* fmt.Sprintf(pypiURL, pkg) otherwise.
CheckURL(pkg, lang) ==
    IF lang = langJS THEN <<npmURL, pkg>> ELSE <<pypiURL, pkg>>

\* The lookup URL of the item worker w of pool p holds.
KeyOf(p, w) == CheckURL(pools[p].inputs[pools[p].w[w].it], pools[p].lang)

\* sem <- struct{}{} and the call worker(it.t) it guards.
Acquire(p, w) ==
    /\ pools[p].state = "running"
    /\ pools[p].w[w].pc = "acq"
    /\ pools[p].sem < pools[p].limit
    /\ pools' = [pools EXCEPT
           ![p].sem = @ + 1,
           ![p].w[w].pc = "call",
           ![p].began[pools[p].w[w].it] =
               IF pools[p].kind = "pkg" /\ KeyOf(p, w) \in DOMAIN headCache
               THEN "cached" ELSE "absent",
           ![p].calls[pools[p].w[w].it] = @ + 1]
    /\ UNCHANGED <<raw, mainpc, threads, urls, headCache, headMu, fetched, probes,
                   output>>

\* <-sem after worker(it.t) returned.
Release(p, w) ==
    /\ pools[p].state = "running"
    /\ pools[p].w[w].pc = "ret"
    /\ pools' = [pools EXCEPT ![p].sem = @ - 1,
                              ![p].w[w].pc = "send"]
    /\ UNCHANGED <<raw, mainpc, threads, urls, headCache, headMu, fetched, probes,
                   output>>

\* if o.err != nil && firstErr == nil { firstErr = o.err }
FirstErrLast(firstErr, err) == IF err /= 0 THEN err ELSE firstErr

FirstErr(firstErr, err) == IF err /= 0 /\ firstErr = 0 THEN err ELSE firstErr

\* outCh <- out{...} meeting the caller's `for o := range outCh`; the worker
\* goes back to its range over inCh.
Collect(p, w) ==
    /\ pools[p].state = "running"
    /\ ~pools[p].outClosed
    /\ pools[p].w[w].pc = "send"
    /\ pools' = [pools EXCEPT
           ![p].results = Append(@, pools[p].w[w].val),
           ![p].firstErr = FirstErr(@, pools[p].w[w].err),
           ![p].w[w] = IdleWorker]
    /\ UNCHANGED <<raw, mainpc, threads, urls, headCache, headMu, fetched, probes,
                   output>>

\* wg.Wait() returns; close(outCh).
CloseOut(p) ==
    /\ pools[p].state = "running"
    /\ ~pools[p].outClosed
    /\ pools[p].wg = 0
    /\ pools' = [pools EXCEPT ![p].outClosed = TRUE]
    /\ UNCHANGED <<raw, mainpc, threads, urls, headCache, headMu, fetched, probes,
                   output>>

\* The caller's range over the closed outCh ends: return results, firstErr.
PoolReturn(p) ==
    /\ pools[p].state = "running"
    /\ pools[p].outClosed
    /\ pools' = [pools EXCEPT ![p].state = "returned"]
    /\ UNCHANGED <<raw, mainpc, threads, urls, headCache, headMu, fetched, probes,
                   output>>

\* A worker function of the generic pool: it returns a value made from its
\* input and either nil or an error (numbered after the input).
GenericWorker(p, w) ==
    /\ pools[p].state = "running"
    /\ pools[p].kind = "generic"
    /\ pools[p].w[w].pc = "call"
    /\ \E fails \in BOOLEAN :
         pools' = [pools EXCEPT
             ![p].w[w].pc = "ret",
             ![p].w[w].val = <<pools[p].inputs[pools[p].w[w].it]>>,
             ![p].w[w].err = IF fails THEN pools[p].w[w].it ELSE 0,
             ![p].rets[pools[p].w[w].it] = <<fails>>]
    /\ UNCHANGED <<raw, mainpc, threads, urls, headCache, headMu, fetched, probes,
                   output>>

PoolStep(p) ==
    \/ \E w \in Workers(p) : Dispatch(p, w)
    \/ CloseIn(p)
    \/ \E w \in Workers(p) : WorkerExit(p, w)
    \/ \E w \in Workers(p) : Acquire(p, w)
    \/ \E w \in Workers(p) : Release(p, w)
    \/ \E w \in Workers(p) : Collect(p, w)
    \/ CloseOut(p)
    \/ PoolReturn(p)

\* ------------------------------------------------ extractPackagesFromJS

\* The first place of s that holds c, 0 when none does.
IndexOf(s, c) ==
    IF \E i \in 1..Len(s) : s[i] = c
    THEN CHOOSE i \in 1..Len(s) : s[i] = c /\ \A j \in 1..(i - 1) : s[j] /= c
    ELSE 0

\* strings.Cut(s, c): the text before and after the first c.
Before(s, c) == IF IndexOf(s, c) = 0 THEN s ELSE SubSeq(s, 1, IndexOf(s, c) - 1)

After(s, c) == IF IndexOf(s, c) = 0 THEN <<>> ELSE SubSeq(s, IndexOf(s, c) + 1, Len(s))

Letters == UpperChars \cup {LowerOf[c] : c \in UpperChars}

Digits == {"0", "1", "2", "3", "4", "5", "6", "7", "8", "9"}

\* [\w.-]
IsIdent(c) == c \in Letters \cup Digits \cup {"_", ".", "-"}

\* ['"] and [^'"]
IsQuote(c) == c \in {"'", "\""}

NotQuote(c) == ~IsQuote(c)

\* The character classes of the two expressions, by name.
InClass(c, class) ==
    CASE class = "ident" -> IsIdent(c)
      [] class = "space" -> IsSpace(c)
      [] class = "notquote" -> NotQuote(c)

\* The last place of the run of characters of a class that starts at place
\* i of s; i - 1 when the run is empty.
RunEnd(s, i, class) ==
    LET bad == {k \in i..Len(s) : ~InClass(s[k], class)}
    IN  IF i > Len(s) THEN i - 1
        ELSE IF bad = {} THEN Len(s)
        ELSE (CHOOSE k \in bad : \A j \in bad : k <= j) - 1

\* s holds the text t from place i on.
HasAt(s, i, t) == i + Len(t) - 1 <= Len(s) /\ SubSeq(s, i, i + Len(t) - 1) = t

\* scopedRe from place i, given the last place j of the run after "@".
ScopedFrom(s, i, j) ==
    IF /\ s[i] = "@" /\ j >= i + 1
       /\ j + 1 <= Len(s) /\ s[j + 1] = "/"
       /\ RunEnd(s, j + 2, "ident") >= j + 2
    THEN RunEnd(s, j + 2, "ident") ELSE 0

\* scopedRe at place i: "@", identifier characters, "/", identifier
\* characters; the last place of the match, 0 when there is none.
ScopedAt(s, i) == ScopedFrom(s, i, RunEnd(s, i + 1, "ident"))

\* The last places of the matches of scopedRe, by the place they start at.
ScopedEnds(s) == [i \in 1..Len(s) |-> ScopedAt(s, i)]

\* The matches that end at the places e, with the place of each.
ScopedTexts(s, e) ==
    {[at |-> i, m |-> SubSeq(s, i, e[i])] : i \in {k \in 1..Len(s) : e[k] > 0}}

\* scopedRe.FindAllString(content, -1), with the place of each match: a
\* match holds no "@" but its first character, so no two overlap.
ScopedMatches(s) == ScopedTexts(s, ScopedEnds(s))

\* if strings.HasPrefix(m, ".") || strings.HasPrefix(m, "/") { continue }
ScopedSkipped(s, x) == HasPrefix(x.m, <<".">>) \/ HasPrefix(x.m, <<"/">>)

\* The first loop of extractPackagesFromJS.
ScopedPackages(s) == {x.m : x \in {y \in ScopedMatches(s) : ~ScopedSkipped(s, y)}}

NoMatch == [name |-> <<>>, end |-> 0]

\* The first place at or after i that holds no white space.
SkipWS(s, i) == RunEnd(s, i, "space") + 1

\* ['"]([^'"]+)['"] at place i, given the last place e of the run after the
\* opening quote.
QuotedTo(s, i, e) ==
    IF i <= Len(s) /\ IsQuote(s[i]) /\ e >= i + 1 /\ e + 1 <= Len(s)
    THEN [name |-> SubSeq(s, i + 1, e), end |-> e + 1]
    ELSE NoMatch

\* ['"]([^'"]+)['"] at place i
QuotedAt(s, i) == QuotedTo(s, i, RunEnd(s, i + 1, "notquote"))

KwRequire == <<"r", "e", "q", "u", "i", "r", "e", "(">>
KwImport == <<"i", "m", "p", "o", "r", "t">>
KwFrom == <<"f", "r", "o", "m">>

\* \s*\) after the quoted name q, at the place c after the white space.
RequireClose(s, q, c) ==
    IF q.end > 0 /\ c <= Len(s) /\ s[c] = ")"
    THEN [name |-> q.name, end |-> c]
    ELSE NoMatch

\* ['"]([^'"]+)['"]\s*\) with the quoted name q
RequireQuoted(s, q) == RequireClose(s, q, SkipWS(s, q.end + 1))

\* require\(\s*['"]([^'"]+)['"]\s*\) at place i
RequireAt(s, i) ==
    IF HasAt(s, i, KwRequire)
    THEN RequireQuoted(s, QuotedAt(s, SkipWS(s, i + Len(KwRequire))))
    ELSE NoMatch

\* from\s+['"]([^'"]+)['"] at place f, with h the place after the white
\* space that follows the word.
FromQuoted(s, f, h) ==
    IF HasAt(s, f, KwFrom) /\ h > f + Len(KwFrom) THEN QuotedAt(s, h) ELSE NoMatch

\* \s+from\s+['"]([^'"]+)['"] at place p, with f the place after the white
\* space at p.
FromWord(s, p, f) ==
    IF f > p THEN FromQuoted(s, f, SkipWS(s, f + Len(KwFrom))) ELSE NoMatch

\* \s+from\s+['"]([^'"]+)['"] at place p
FromAt(s, p) == FromWord(s, p, SkipWS(s, p))

\* The matches of the from clause, by the place they start at.
FromMatches(s) == [p \in 1..Len(s) |-> FromAt(s, p)]

\* The match of import's tail from the place w after the white space: the
\* one tried first has .+? start at w and end before the first place of
\* later; the next has no from clause and the quote at w; the last lets .+?
\* take some of the white space before a from clause at w.
ImportPick(s, from, w, later, inside) ==
    IF later /= {} THEN from[CHOOSE p \in later : \A r \in later : p <= r]
    ELSE IF QuotedAt(s, w).end > 0 THEN QuotedAt(s, w)
    ELSE IF inside /= {} THEN from[CHOOSE p \in inside : TRUE]
    ELSE NoMatch

\* import\s+(?:.+?\s+from\s+)?['"]([^'"]+)['"] after the word, which ends
\* before place a, with w the place after the white space and from the
\* matches of the from clause. later holds the places after w where a from
\* clause matches with no line break in between, inside those in the white
\* space.
ImportAfter(s, from, a, w) ==
    IF w = a THEN NoMatch
    ELSE ImportPick(s, from, w,
             {p \in (w + 1)..Len(s) :
                 /\ \A k \in w..(p - 1) : s[k] /= "\n"
                 /\ from[p].end > 0},
             {p \in (a + 2)..(w - 1) : s[p - 1] /= "\n" /\ from[p].end > 0})

\* import\s+(?:.+?\s+from\s+)?['"]([^'"]+)['"] at place i
ImportAt(s, i) ==
    IF HasAt(s, i, KwImport)
    THEN ImportAfter(s, FromMatches(s), i + Len(KwImport), SkipWS(s, i + Len(KwImport)))
    ELSE NoMatch

\* The first alternative when it matches, else the second.
FirstMatch(first, second) == IF first.end > 0 THEN first ELSE second

\* importReqRe at place i
ImportReqAt(s, i) == FirstMatch(RequireAt(s, i), ImportAt(s, i))

\* The captured names of the matches m (by the place they start at) that
\* FindAllStringSubmatch reports from place i on: the leftmost match, then
\* the matches after its end.
NamesFrom(s, m, i) ==
    LET from[j \in 1..(Len(s) + 1)] ==
            IF j > Len(s) THEN {}
            ELSE IF m[j].end > 0 THEN {m[j].name} \cup from[m[j].end + 1]
            ELSE from[j + 1]
    IN  from[i]

\* The captured names of importReqRe.FindAllStringSubmatch(content, -1)
\* from place i on.
ImportNames(s, i) == NamesFrom(s, [j \in 1..Len(s) |-> ImportReqAt(s, j)], i)

\* The tests of the second loop on a captured name.
ImportKept(pkg) ==
    /\ pkg /= <<>>
    /\ ~HasPrefix(pkg, <<".">>) /\ ~HasPrefix(pkg, <<"/">>)
    /\ ~HasPrefix(ToLower(pkg), <<"h", "t", "t", "p", ":", "/", "/">>)
    /\ ~HasPrefix(ToLower(pkg), <<"h", "t", "t", "p", "s", ":", "/", "/">>)
    /\ ~HasPrefix(ToLower(pkg), <<"g", "i", "t", "+">>)

\* The set extractPackagesFromJS collects.
JSPackages(content) ==
    ScopedPackages(content) \cup
    {pkg \in {TrimSpace(n) : n \in ImportNames(content, 1)} : ImportKept(pkg)}

\* extractPackagesFromJS(content)
ExtractPackagesFromJS(content) == SortStrings(JSPackages(content))

\* strings.Split(s, "\n")
SplitLines(s) ==
    LET from[i \in 1..(Len(s) + 1)] ==
            LET breaks == {k \in i..Len(s) : s[k] = "\n"}
            IN  IF breaks = {} THEN <<SubSeq(s, i, Len(s))>>
                ELSE LET b == CHOOSE k \in breaks : \A j \in breaks : k <= j
                     IN  <<SubSeq(s, i, b - 1)>> \o from[b + 1]
    IN  from[1]

\* ------------------------------------------------------------- the web
\* A URL is scheme://dir/file?query; file and query are strings, and the
\* query holds no "/".

PackageJSONName == <<"p", "a", "c", "k", "a", "g", "e", ".", "j", "s", "o", "n">>
RequirementsName == <<"r", "e", "q", "u", "i", "r", "e", "m", "e", "n", "t", "s", ".", "t", "x", "t">>
AppJSName == <<"a", "p", "p", ".", "j", "s">>
LibTSName == <<"l", "i", "b", ".", "t", "s">>
PackageJSONUpper == <<"P", "a", "c", "k", "a", "g", "e", ".", "J", "S", "O", "N">>

URL(dir, file, query) == [dir |-> dir, file |-> file, query |-> query]

\* path.Base(targetURL): the text after the string's last "/".
PathBase(u) == IF u.query = <<>> THEN u.file ELSE u.file \o <<"?">> \o u.query

\* looksLikeCodeFile(targetURL): a suffix test on the whole lower-cased string
LooksLikeCodeFile(u) ==
    LET l == ToLower(PathBase(u))
    IN  \/ HasSuffix(l, <<".", "j", "s">>)
        \/ HasSuffix(l, <<".", "m", "j", "s">>)
        \/ HasSuffix(l, <<".", "c", "j", "s">>)
        \/ HasSuffix(l, <<".", "t", "s">>)

\* What a fetched body is to each reader: to json.Unmarshal (ok, and the key
\* sets of "dependencies" and "devDependencies"), to extractPackagesFromJS
\* (the set it collects) and to strings.Split(body, "\n") (the lines).
Body(ok, deps, dev, imports, lines) ==
    [ok |-> ok, deps |-> deps, dev |-> dev, imports |-> imports, lines |-> lines]

NameX == <<"x">>
NameZ == <<"z">>

\* A body that is text and no JSON document.
Text(content) == Body(FALSE, {}, {}, JSPackages(content), SplitLines(content))

\* require("z")
ContentRequire ==
    <<"r", "e", "q", "u", "i", "r", "e", "(", "\"", "z", "\"", ")">>

\* var a = 1;
ContentPlain ==
    <<"v", "a", "r", " ", "a", " ", "=", " ", "1", ";">>

\* import a from "./@s/p"
ContentRelative ==
    <<"i", "m", "p", "o", "r", "t", " ", "a", " ", "f", "r", "o", "m", " ",
      "\"", ".", "/", "@", "s", "/", "p", "\"">>

\* import a from "@s/p"
ContentScoped ==
    <<"i", "m", "p", "o", "r", "t", " ", "a", " ", "f", "r", "o", "m", " ",
      "\"", "@", "s", "/", "p", "\"">>

\* {"dependencies":{"x":"1"}}
ContentManifest ==
    <<"{", "\"", "d", "e", "p", "e", "n", "d", "e", "n", "c", "i", "e", "s",
      "\"", ":", "{", "\"", "x", "\"", ":", "\"", "1", "\"", "}", "}">>

\* The text fetched from the code files of the model, by directory.
Content(u) ==
    CASE u.dir = "J" -> ContentRequire
      [] u.dir = "M" -> ContentPlain
      [] u.dir = "R" -> ContentRelative
      [] u.dir = "T" -> ContentScoped
      [] OTHER -> <<>>

BodyRequire == Text(ContentRequire)
BodyPlain == Text(ContentPlain)
BodyRelative == Text(ContentRelative)
BodyScoped == Text(ContentScoped)
BodyManifest == [Text(ContentManifest) EXCEPT !.ok = TRUE, !.deps = {NameX}]

\* The documents of the modelled web, by directory.
Web(u) ==
    CASE u.dir = "A" -> Body(TRUE, {NameX}, {}, {}, <<>>)
      [] u.dir = "B" -> Body(FALSE, {}, {}, {},
                             << <<"y", "=", "=", "1">>,
                                <<"#", " ", "c">>,
                                <<>>,
                                <<" ", "z", ">", "=", "2">> >>)
      [] u.dir = "C" -> Body(TRUE, {NameX}, {<<" ", "x">>}, {}, <<>>)
      [] u.dir = "D" -> Body(FALSE, {}, {}, {}, << <<"{">> >>)
      [] u.dir = "N" -> Body(FALSE, {}, {}, {}, << <<"#", " ", "c">>, <<" ">> >>)
      [] u.dir = "J" -> BodyRequire
      [] u.dir = "M" -> BodyPlain
      [] u.dir = "R" -> BodyRelative
      [] u.dir = "T" -> BodyScoped
      [] u.dir = "Q" -> BodyManifest
      [] u.dir = "U" -> Body(TRUE, {NameX}, {NameZ}, {}, <<>>)
      [] u.dir \in {"E", "G"} -> Body(TRUE, {}, {NameX}, {}, <<>>)
      [] u.dir \in {"F", "H", "K", "L"} -> Body(FALSE, {}, {}, {}, << <<"y", "=", "=", "1">> >>)
      [] OTHER -> Body(FALSE, {}, {}, {}, <<>>)

\* The accepted URLs a run can be given, in their input order.
URLUniverse ==
    << URL("B", RequirementsName, <<>>),
       URL("A", PackageJSONName, <<>>),
       URL("C", PackageJSONName, <<>>),
       URL("D", PackageJSONName, <<>>),
       URL("N", RequirementsName, <<>>),
       URL("J", AppJSName, <<>>) >>

\* ------------------------------------------------------- getDependencies

\* reqSplitRe: [<>=!~\[\];\s]
IsReqDelim(c) == c \in {"<", ">", "=", "!", "~", "[", "]", ";"} \/ IsSpace(c)

\* reqSplitRe.Split(line, -1)[0]: the text before the first delimiter
RECURSIVE FirstPart(_)
FirstPart(line) ==
    IF line = <<>> \/ IsReqDelim(Head(line)) THEN <<>>
    ELSE <<Head(line)>> \o FirstPart(Tail(line))

\* The requirement-list loop of getDependencies.
RECURSIVE ReqDeps(_)
ReqDeps(lines) ==
    IF lines = <<>> THEN <<>>
    ELSE LET line == TrimSpace(Head(lines))
             pkg == TrimSpace(FirstPart(line))
         IN  IF line = <<>> \/ HasPrefix(line, <<"#">>) \/ pkg = <<>>
             THEN ReqDeps(Tail(lines))
             ELSE <<pkg>> \o ReqDeps(Tail(lines))

Result(err, deps, lang) == [err |-> err, deps |-> deps, lang |-> lang]

\* getDependencies after a successful httpGET: every (deps, lang, err) it
\* can return for the body (a Go map is ranged over in any order).
GetDependenciesCodeIsJS(u, body) ==
    IF EqualFold(PathBase(u), PackageJSONName)
    THEN IF ~body.ok THEN {Result(TRUE, <<>>, "")}
         ELSE {Result(FALSE, a \o b, langJS) :
                 a \in Perms(body.deps), b \in Perms(body.dev)}
    ELSE IF LooksLikeCodeFile(u)
    THEN {Result(FALSE, SortStrings(body.imports), langJS)}
    ELSE {Result(FALSE, ReqDeps(body.lines), langPython)}

GetDependencies(u, body) ==
    IF EqualFold(PathBase(u), PackageJSONName)
    THEN IF ~body.ok THEN {Result(TRUE, <<>>, "")}
         ELSE {Result(FALSE, a \o b, langJS) :
                 a \in Perms(body.deps), b \in Perms(body.dev)}
    ELSE IF LooksLikeCodeFile(u) /\ body.imports /= {}
    THEN {Result(FALSE, SortStrings(body.imports), langJS)}
    ELSE {Result(FALSE, ReqDeps(body.lines), langPython)}

\* ------------------------------------------------ checkURLDependencies

\* The loop that builds inputs: trim, drop empty, keep the first of equals.
RECURSIVE DedupNoTrim(_, _)
DedupNoTrim(deps, seen) ==
    IF deps = <<>> THEN <<>>
    ELSE LET d == Head(deps)
         IN  IF d = <<>> \/ d \in seen THEN DedupNoTrim(Tail(deps), seen)
             ELSE <<d>> \o DedupNoTrim(Tail(deps), seen \cup {d})

RECURSIVE Dedup(_, _)
Dedup(deps, seen) ==
    IF deps = <<>> THEN <<>>
    ELSE LET d == TrimSpace(Head(deps))
         IN  IF d = <<>> \/ d \in seen THEN Dedup(Tail(deps), seen)
             ELSE <<d>> \o Dedup(Tail(deps), seen \cup {d})

\* The concatenation of a sequence of sequences.
RECURSIVE Flatten(_)
Flatten(ss) == IF ss = <<>> THEN <<>> ELSE Head(ss) \o Flatten(Tail(ss))

\* outp{u: x.u, vulns: vv, err: err}
Outp(u, vulns, err) == [u |-> u, vulns |-> vulns, err |-> err]

\* getDependencies fails in httpGET, or json.Unmarshal fails, or no
\* dependency is found: checkURLDependencies returns without a pool, and the
\* outer worker returns (outp, nil).
GetDependenciesFail(w) ==
    /\ pools[0].state = "running"
    /\ pools[0].kind = "url"
    /\ pools[0].w[w].pc = "call"
    /\ LET i == pools[0].w[w].it
           u == urls[i]
       IN  \E how \in {"fetcherr"} \cup
                      {IF r.err THEN "extracterr" ELSE "empty" :
                         r \in {x \in GetDependencies(u, Web(u)) : x.err \/ x.deps = <<>>}} :
             /\ pools' = [pools EXCEPT
                    ![0].w[w].pc = "ret",
                    ![0].w[w].val = Outp(u, <<>>, how /= "empty"),
                    ![0].rets[i] = <<how>>]
             /\ fetched' = [fetched EXCEPT ![i] = how]
    /\ UNCHANGED <<raw, mainpc, threads, urls, headCache, headMu, probes, output>>

\* getDependencies returns names: checkURLDependencies trims and dedups them
\* and calls runWorkers(inputs, worker, threads).
CheckURLDependenciesStart(w) ==
    /\ pools[0].state = "running"
    /\ pools[0].kind = "url"
    /\ pools[0].w[w].pc = "call"
    /\ LET i == pools[0].w[w].it
           u == urls[i]
       IN  \E r \in {x \in GetDependencies(u, Web(u)) : ~x.err /\ x.deps /= <<>>} :
             /\ pools' = [pools EXCEPT
                    ![0].w[w].pc = "wait",
                    ![i] = NewPool(Dedup(r.deps, {}), threads, "pkg", r.lang)]
             /\ fetched' = [fetched EXCEPT ![i] = "ok"]
    /\ UNCHANGED <<raw, mainpc, threads, urls, headCache, headMu, probes, output>>

\* runWorkers returned: keep the non-nil results and return them.
CheckURLDependenciesEnd(w) ==
    /\ pools[0].state = "running"
    /\ pools[0].kind = "url"
    /\ pools[0].w[w].pc = "wait"
    /\ LET i == pools[0].w[w].it
       IN  /\ pools[i].state = "returned"
           /\ pools' = [pools EXCEPT
                  ![0].w[w].pc = "ret",
                  ![0].w[w].val = Outp(urls[i], Flatten(pools[i].results), FALSE),
                  ![0].rets[i] = <<"ok">>]
    /\ UNCHANGED <<raw, mainpc, threads, urls, headCache, headMu, fetched, probes,
                   output>>

\* ----------------------------------------------- isUnclaimed and httpHEAD

\* A map with key k set to v.
Put(m, k, v) == [x \in DOMAIN m \cup {k} |-> IF x = k THEN v ELSE m[x]]

\* if st, ok := headCache[checkURL]; ok
CachedNever(key) == FALSE

Cached(key) == key \in DOMAIN headCache

\* if err != nil { return false, 0 }
ProbeFailedAsFinding == <<TRUE, 0>>

ProbeFailed == <<FALSE, 0>>

\* if st != http.StatusOK && st != http.StatusFound { return true, st }
\* return false, st
ClassifyOnlyOK(st) == <<st /= StatusOK, st>>

Classify(st) == <<st /= StatusOK /\ st /= StatusFound, st>>

\* What the inner worker returns for isUnclaimed's answer a = (isV, code).
VulnAlways(pkg, a, lang) ==
    <<[Package |-> pkg, Status |-> a[2], Language |-> lang]>>

Vuln(pkg, a, lang) ==
    IF a[1] THEN <<[Package |-> pkg, Status |-> a[2], Language |-> lang]>> ELSE <<>>

\* isUnclaimed returns a to the inner worker w of pool p, which returns its
\* outp; how is "hit", "hit2", "probe" or "error" (history).
Returned(p, w, a, how) ==
    [pools EXCEPT
        ![p].w[w].pc = "ret",
        ![p].w[w].val = Vuln(pools[p].inputs[pools[p].w[w].it], a, pools[p].lang),
        ![p].rets[pools[p].w[w].it] = <<a[1], a[2], how>>]

InnerAt(p, w, pc) ==
    /\ p /= 0
    /\ pools[p].state = "running"
    /\ pools[p].kind = "pkg"
    /\ pools[p].w[w].pc = pc

\* headMu.Lock() of isUnclaimed (pc "call"), of httpHEAD's lookup ("head")
\* and of httpHEAD's insert ("ins").
LockPc(pc) ==
    CASE pc = "call" -> "chk1"
      [] pc = "head" -> "chk2"
      [] pc = "ins" -> "ins2"

Lock(p, w) ==
    /\ p /= 0
    /\ pools[p].state = "running"
    /\ pools[p].kind = "pkg"
    /\ pools[p].w[w].pc \in {"call", "head", "ins"}
    /\ headMu = <<>>
    /\ headMu' = <<p, w>>
    /\ pools' = [pools EXCEPT ![p].w[w].pc = LockPc(@)]
    /\ UNCHANGED <<raw, mainpc, threads, urls, headCache, fetched, probes, output>>

\* isUnclaimed's lookup under the lock: a hit returns the cached status
\* classified, a miss goes on to httpHEAD.
IsUnclaimedLookup(p, w) ==
    /\ InnerAt(p, w, "chk1")
    /\ headMu = <<p, w>>
    /\ headMu' = <<>>
    /\ pools' = IF Cached(KeyOf(p, w))
                THEN [Returned(p, w, Classify(headCache[KeyOf(p, w)]), "hit")
                        EXCEPT ![p].w[w].st = headCache[KeyOf(p, w)]]
                ELSE [pools EXCEPT ![p].w[w].pc = "head"]
    /\ UNCHANGED <<raw, mainpc, threads, urls, headCache, fetched, probes, output>>

\* httpHEAD's lookup under the lock: a hit returns (st, nil), which
\* isUnclaimed classifies; a miss goes on to httpClient.Do.
HttpHEADLookup(p, w) ==
    /\ InnerAt(p, w, "chk2")
    /\ headMu = <<p, w>>
    /\ headMu' = <<>>
    /\ pools' = IF Cached(KeyOf(p, w))
                THEN [Returned(p, w, Classify(headCache[KeyOf(p, w)]), "hit2")
                        EXCEPT ![p].w[w].st = headCache[KeyOf(p, w)]]
                ELSE [pools EXCEPT ![p].w[w].pc = "probe"]
    /\ UNCHANGED <<raw, mainpc, threads, urls, headCache, fetched, probes, output>>

\* The statuses a registry answers with.
Statuses == {StatusOK, StatusFound, StatusNotFound, StatusServerError}

\* httpClient.Do(req) returns an error (a timeout is one): httpHEAD returns
\* (0, err) and isUnclaimed (false, 0). An error of http.NewRequest ends the
\* call the same way, with the cache as it was.
ProbeErrorCaches(p, w) ==
    /\ InnerAt(p, w, "probe")
    /\ pools' = Returned(p, w, ProbeFailed, "error")
    /\ headCache' = Put(headCache, KeyOf(p, w), 0)
    /\ UNCHANGED <<raw, mainpc, threads, urls, headMu, fetched, probes, output>>

ProbeError(p, w) ==
    /\ InnerAt(p, w, "probe")
    /\ pools' = Returned(p, w, ProbeFailed, "error")
    /\ UNCHANGED <<raw, mainpc, threads, urls, headCache, headMu, fetched, probes,
                   output>>

\* httpClient.Do(req) returns a response with some status.
ProbeResponse(p, w) ==
    /\ InnerAt(p, w, "probe")
    /\ \E st \in Statuses :
         pools' = [pools EXCEPT ![p].w[w].pc = "ins", ![p].w[w].st = st]
    /\ probes' = Put(probes, KeyOf(p, w),
                     IF KeyOf(p, w) \in DOMAIN probes THEN probes[KeyOf(p, w)] + 1 ELSE 1)
    /\ UNCHANGED <<raw, mainpc, threads, urls, headCache, headMu, fetched, output>>

\* headCache[u] = resp.StatusCode under the lock; httpHEAD returns the
\* status, which isUnclaimed classifies.
HttpHEADInsert(p, w) ==
    /\ InnerAt(p, w, "ins2")
    /\ headMu = <<p, w>>
    /\ headMu' = <<>>
    /\ headCache' = Put(headCache, KeyOf(p, w), pools[p].w[w].st)
    /\ pools' = Returned(p, w, Classify(pools[p].w[w].st), "probe")
    /\ UNCHANGED <<raw, mainpc, threads, urls, fetched, probes, output>>

\* -------------------------------------------------- filterManifestURLs

\* net/url getScheme: letters, and after the first place digits, "+", "-"
\* and ".", up to a ":"; a ":" in the first place is an error, any other
\* character or the end of the string means there is no scheme.
GetScheme(s) ==
    LET stop == {i \in 1..Len(s) :
                    ~(\/ s[i] \in Letters
                      \/ i > 1 /\ s[i] \in Digits \cup {"+", "-", "."})}
        i == IF stop = {} THEN 0 ELSE CHOOSE k \in stop : \A j \in stop : k <= j
    IN  IF i = 0 \/ s[i] /= ":" THEN [ok |-> TRUE, scheme |-> <<>>, rest |-> s]
        ELSE IF i = 1 THEN [ok |-> FALSE, scheme |-> <<>>, rest |-> s]
        ELSE [ok |-> TRUE, scheme |-> SubSeq(s, 1, i - 1),
              rest |-> SubSeq(s, i + 1, Len(s))]

\* net/url stringContainsCTLByte
HasCTL(s) == \E i \in 1..Len(s) : s[i] \in {"\t", "\n", "\r"}

\* url.Parse(u), for the fields filterManifestURLs reads: the fragment is
\* cut off, the scheme lower-cased, the query cut at the first "?", and
\* after "//" the host runs to the next "/". The hosts of the model hold no
\* user info, port or escape.
ParseURL(u) ==
    LET nofrag == Before(u, "#")
        g == GetScheme(nofrag)
        rest == Before(g.rest, "?")
        auth == SubSeq(rest, 3, Len(rest))
    IN  IF HasCTL(nofrag) \/ ~g.ok
        THEN [ok |-> FALSE, Scheme |-> <<>>, Host |-> <<>>, Path |-> <<>>,
              RawQuery |-> <<>>]
        ELSE IF HasPrefix(rest, <<"/", "/">>)
        THEN [ok |-> TRUE, Scheme |-> ToLower(g.scheme),
              Host |-> Before(auth, "/"),
              Path |-> IF IndexOf(auth, "/") = 0 THEN <<>>
                       ELSE SubSeq(auth, IndexOf(auth, "/"), Len(auth)),
              RawQuery |-> After(g.rest, "?")]
        ELSE [ok |-> TRUE, Scheme |-> ToLower(g.scheme), Host |-> <<>>,
              Path |-> rest, RawQuery |-> After(g.rest, "?")]

\* url.PathUnescape, whose error filterManifestURLs drops: a string without
\* "%" is returned as it is, and the result for an invalid escape is "".
\* Every "%" in the lines of the model starts an invalid escape.
PathUnescape(s) == IF IndexOf(s, "%") = 0 THEN s ELSE <<>>

\* The file names of manifestRe, lower-cased (the expression is (?i)).
ManifestNames ==
    << <<"p", "a", "c", "k", "a", "g", "e", ".", "j", "s", "o", "n">>,
       <<"p", "a", "c", "k", "a", "g", "e", "-", "l", "o", "c", "k", ".", "j", "s", "o", "n">>,
       <<"y", "a", "r", "n", ".", "l", "o", "c", "k">>,
       <<"p", "n", "p", "m", "-", "l", "o", "c", "k", ".", "y", "a", "m", "l">>,
       <<"r", "e", "q", "u", "i", "r", "e", "m", "e", "n", "t", "s", ".", "t", "x", "t">>,
       <<"p", "y", "p", "r", "o", "j", "e", "c", "t", ".", "t", "o", "m", "l">>,
       <<"p", "i", "p", "f", "i", "l", "e">>,
       <<"p", "i", "p", "f", "i", "l", "e", ".", "l", "o", "c", "k">>,
       <<"c", "o", "n", "s", "t", "r", "a", "i", "n", "t", "s", ".", "t", "x", "t">>,
       <<"s", "e", "t", "u", "p", ".", "p", "y">>,
       <<"c", "o", "m", "p", "o", "s", "e", "r", ".", "j", "s", "o", "n">>,
       <<"g", "o", ".", "m", "o", "d">> >>

\* manifestRe.MatchString(t): a name at the start or after "/", followed by
\* the end of the text or by "?", "#" or "/".
ManifestMatch(t) ==
    \E i \in 1..Len(t), n \in 1..Len(ManifestNames) :
        LET e == i + Len(ManifestNames[n]) - 1
        IN  /\ i = 1 \/ t[i - 1] = "/"
            /\ e <= Len(t)
            /\ ToLower(SubSeq(t, i, e)) = ManifestNames[n]
            /\ e = Len(t) \/ t[e + 1] \in {"?", "#", "/"}

\* looksLikeCodeFile(p) on a string
LooksLikeCodeFilePath(p) ==
    LET l == ToLower(p)
    IN  \/ HasSuffix(l, <<".", "j", "s">>)
        \/ HasSuffix(l, <<".", "m", "j", "s">>)
        \/ HasSuffix(l, <<".", "c", "j", "s">>)
        \/ HasSuffix(l, <<".", "t", "s">>)

SchemeHTTP == <<"h", "t", "t", "p">>
SchemeHTTPS == <<"h", "t", "t", "p", "s">>

\* The tests of the loop body after the trim, the empty and the seen test.
Accepts(u) ==
    LET p == ParseURL(u)
        pathPlus == IF p.RawQuery /= <<>> THEN p.Path \o <<"?">> \o p.RawQuery
                    ELSE p.Path
        unesc == PathUnescape(pathPlus)
    IN  /\ p.ok
        /\ p.Scheme \in {SchemeHTTP, SchemeHTTPS}
        /\ p.Host /= <<>>
        /\ ManifestMatch(unesc) \/ LooksLikeCodeFilePath(unesc)

\* if _, ok := seen[u]; ok { continue }
SeenNever(u, seen) == FALSE

Seen(u, seen) == u \in seen

RECURSIVE FilterFrom(_, _)
FilterFrom(lines, seen) ==
    IF lines = <<>> THEN <<>>
    ELSE LET u == TrimSpace(Head(lines))
         IN  IF u = <<>> \/ Seen(u, seen) \/ ~Accepts(u)
             THEN FilterFrom(Tail(lines), seen)
             ELSE <<u>> \o FilterFrom(Tail(lines), seen \cup {u})

FilterManifestURLs(lines) == FilterFrom(lines, {})

\* accepted: a manifest name after "/", at the end
LineManifest ==
    <<"h", "t", "t", "p", "s", ":", "/", "/", "h", "/", "A", "/", "p", "a",
      "c", "k", "a", "g", "e", ".", "j", "s", "o", "n">>

\* the same URL between white space
LineManifestSpaced ==
    <<" ", "h", "t", "t", "p", "s", ":", "/", "/", "h", "/", "A", "/", "p",
      "a", "c", "k", "a", "g", "e", ".", "j", "s", "o", "n", "\t">>

\* accepted: a manifest name before "?"
LineQuery ==
    <<"h", "t", "t", "p", ":", "/", "/", "h", "/", "B", "/", "r", "e", "q",
      "u", "i", "r", "e", "m", "e", "n", "t", "s", ".", "t", "x", "t", "?",
      "v", "=", "1">>

\* accepted: upper-case scheme, code-file suffix
LineCode ==
    <<"H", "T", "T", "P", "S", ":", "/", "/", "h", "/", "J", "/", "A", "p",
      "p", ".", "J", "S">>

\* accepted: a manifest name before "/"
LineSubdir ==
    <<"h", "t", "t", "p", "s", ":", "/", "/", "h", "/", "g", "o", ".", "m",
      "o", "d", "/", "s", "u", "b">>

\* rejected: no manifest name, no code-file suffix
LineOther ==
    <<"h", "t", "t", "p", "s", ":", "/", "/", "h", "/", "x", ".", "t", "x",
      "t">>

\* rejected: the name does not follow "/"
LineInfix ==
    <<"h", "t", "t", "p", "s", ":", "/", "/", "h", "/", "m", "y", "-", "p",
      "a", "c", "k", "a", "g", "e", ".", "j", "s", "o", "n">>

\* rejected: the name is followed by "."
LineBackup ==
    <<"h", "t", "t", "p", "s", ":", "/", "/", "h", "/", "p", "a", "c", "k",
      "a", "g", "e", ".", "j", "s", "o", "n", ".", "b", "a", "k">>

\* rejected: scheme
LineFTP ==
    <<"f", "t", "p", ":", "/", "/", "h", "/", "p", "a", "c", "k", "a", "g",
      "e", ".", "j", "s", "o", "n">>

\* rejected: no scheme, no host
LineNoScheme ==
    <<"h", "/", "p", "a", "c", "k", "a", "g", "e", ".", "j", "s", "o", "n">>

\* rejected: empty host
LineNoHost ==
    <<"h", "t", "t", "p", "s", ":", "/", "/", "/", "p", "a", "c", "k", "a",
      "g", "e", ".", "j", "s", "o", "n">>

\* rejected: url.Parse fails on a control character
LineControl ==
    <<"h", "t", "t", "p", "s", ":", "/", "/", "h", "/", "\t", "p", "a", "c",
      "k", "a", "g", "e", ".", "j", "s", "o", "n">>

\* rejected: PathUnescape fails
LineBadEscape ==
    <<"h", "t", "t", "p", "s", ":", "/", "/", "h", "/", "p", "a", "c", "k",
      "a", "g", "e", ".", "j", "s", "o", "n", "?", "%", "z", "z">>

\* dropped: empty once trimmed
LineBlank ==
    <<" ", " ">>

\* The lines an input is made of.
LineUniverse ==
    {LineManifest, LineManifestSpaced, LineQuery, LineCode,
     LineSubdir, LineOther, LineInfix, LineBackup,
     LineFTP, LineNoScheme, LineNoHost, LineControl,
     LineBadEscape, LineBlank}

\* ------------------------------------------------------------------- main

\* if *threads < 1 { *threads = 1 }; if *threads > 100 { *threads = 100 }
ClampThreads(t) ==
    IF t < MinThreadsFlag THEN MinThreadsFlag
    ELSE IF t > MaxThreadsFlag THEN MaxThreadsFlag ELSE t

\* The printed lines for results: an entry with an error prints nothing, the
\* others one line per vulnerability, with the entry's URL.
RECURSIVE ReportBreak(_)
ReportBreak(results) ==
    IF results = <<>> THEN <<>>
    ELSE LET r == Head(results)
         IN  IF r.err THEN <<>>
             ELSE [k \in 1..Len(r.vulns) |->
                     [Package |-> r.vulns[k].Package,
                      Status |-> r.vulns[k].Status,
                      Language |-> r.vulns[k].Language,
                      URL |-> r.u]] \o ReportBreak(Tail(results))

RECURSIVE Report(_)
Report(results) ==
    IF results = <<>> THEN <<>>
    ELSE LET r == Head(results)
             lines == IF r.err THEN <<>>
                      ELSE [k \in 1..Len(r.vulns) |->
                              [Package |-> r.vulns[k].Package,
                               Status |-> r.vulns[k].Status,
                               Language |-> r.vulns[k].Language,
                               URL |-> r.u]]
         IN  lines \o Report(Tail(results))

\* main after filterManifestURLs: return when nothing was accepted, else
\* runWorkers(inputs, worker, *threads).
MainStart ==
    /\ mainpc = "start"
    /\ IF Len(urls) = 0
       THEN /\ mainpc' = "done"
            /\ pools' = pools
       ELSE /\ mainpc' = "run"
            /\ pools' = [pools EXCEPT ![0] = NewPool(urls, threads, "url", "")]
    /\ UNCHANGED <<raw, threads, urls, headCache, headMu, fetched, probes, output>>

\* The outer runWorkers returned: print the findings.
MainReport ==
    /\ mainpc = "run"
    /\ pools[0].state = "returned"
    /\ mainpc' = "done"
    /\ output' = Report(pools[0].results)
    /\ UNCHANGED <<raw, threads, urls, pools, headCache, headMu, fetched, probes>>

\* The runs of at most n consecutive elements of s.
Slices(s, n) ==
    {SubSeq(s, ij[1], ij[2]) :
        ij \in {x \in (1..Len(s)) \X (0..Len(s)) :
                  x[1] - 1 <= x[2] /\ x[2] - x[1] + 1 <= n}}

Init ==
    /\ raw = <<>>
    /\ mainpc = "start"
    /\ threads \in {ClampThreads(t) : t \in 0..MaxThreads}
    /\ urls \in Slices(URLUniverse, MaxURLs)
    /\ pools = [p \in PoolIds |-> NoPool]
    /\ headCache = <<>>
    /\ headMu = <<>>
    /\ fetched = [i \in 1..Len(urls) |-> "none"]
    /\ probes = <<>>
    /\ output = <<>>

Next ==
    \/ MainStart
    \/ \E p \in PoolIds : PoolStep(p)
    \/ \E w \in Workers(0) : GetDependenciesFail(w)
    \/ \E w \in Workers(0) : CheckURLDependenciesStart(w)
    \/ \E w \in Workers(0) : CheckURLDependenciesEnd(w)
    \/ \E p \in PoolIds : \E w \in Workers(p) : Lock(p, w)
    \/ \E p \in PoolIds : \E w \in Workers(p) : IsUnclaimedLookup(p, w)
    \/ \E p \in PoolIds : \E w \in Workers(p) : HttpHEADLookup(p, w)
    \/ \E p \in PoolIds : \E w \in Workers(p) : ProbeError(p, w)
    \/ \E p \in PoolIds : \E w \in Workers(p) : ProbeResponse(p, w)
    \/ \E p \in PoolIds : \E w \in Workers(p) : HttpHEADInsert(p, w)
    \/ MainReport

Spec == Init /\ [][Next]_vars

\* ----------------------------- RaceSpec: one package, several URLs at once

\* Directories whose manifest names the one package x (js) or y (python).
RaceDirsJS == <<"A", "C", "E", "G">>
RaceDirsPython == <<"F", "H", "K", "L">>

RaceURLs ==
    { [i \in 1..MaxCallers |-> URL(RaceDirsJS[i], PackageJSONName, <<>>)],
      [i \in 1..MaxCallers |-> URL(RaceDirsPython[i], RequirementsName, <<>>)] }

\* The inner pool of one URL once its producer has handed its only name to a
\* worker and closed inCh, and the workers left without an item have
\* returned.
InnerDispatched(r) ==
    [NewPool(Dedup(r.deps, {}), threads, "pkg", r.lang) EXCEPT
        !.next = 2,
        !.inClosed = TRUE,
        !.wg = 1,
        !.w = [j \in 1..threads |->
                 IF j = 1 THEN [IdleWorker EXCEPT !.pc = "acq", !.it = 1]
                 ELSE [IdleWorker EXCEPT !.pc = "done"]]]

\* The scan of MaxCallers URLs under -t MaxCallers at the moment every outer
\* worker holds one URL, has fetched it and waits for its inner pool, and
\* every inner pool is at InnerDispatched: a state main reaches by
\* MainStart, Dispatch, Acquire and CheckURLDependenciesStart for each URL,
\* then Dispatch, CloseIn and WorkerExit in each inner pool.
RaceInit ==
    /\ raw = <<>>
    /\ mainpc = "run"
    /\ threads = ClampThreads(MaxCallers)
    /\ urls \in RaceURLs
    /\ pools =
         [p \in PoolIds |->
            IF p = 0
            THEN [NewPool(urls, threads, "url", "") EXCEPT
                    !.next = Len(urls) + 1,
                    !.sem = Len(urls),
                    !.calls = [i \in 1..Len(urls) |-> 1],
                    !.began = [i \in 1..Len(urls) |-> "absent"],
                    !.w = [j \in 1..threads |->
                             [IdleWorker EXCEPT !.pc = "wait", !.it = j]]]
            ELSE IF p <= Len(urls)
            THEN InnerDispatched(CHOOSE r \in GetDependencies(urls[p], Web(urls[p])) : TRUE)
            ELSE NoPool]
    /\ headCache = <<>>
    /\ headMu = <<>>
    /\ fetched = [i \in 1..Len(urls) |-> "ok"]
    /\ probes = <<>>
    /\ output = <<>>

\* The steps of the isUnclaimed calls, from the sem acquire that starts each
\* to its return. The steps the pools take afterwards (Release, Collect, ...)
\* read and write neither headCache, headMu nor the calls in flight.
RaceNext ==
    \/ \E p \in PoolIds : \E w \in Workers(p) : Acquire(p, w)
    \/ \E p \in PoolIds : \E w \in Workers(p) : Lock(p, w)
    \/ \E p \in PoolIds : \E w \in Workers(p) : IsUnclaimedLookup(p, w)
    \/ \E p \in PoolIds : \E w \in Workers(p) : HttpHEADLookup(p, w)
    \/ \E p \in PoolIds : \E w \in Workers(p) : ProbeError(p, w)
    \/ \E p \in PoolIds : \E w \in Workers(p) : ProbeResponse(p, w)
    \/ \E p \in PoolIds : \E w \in Workers(p) : HttpHEADInsert(p, w)

RaceSpec == RaceInit /\ [][RaceNext]_vars

\* The scan under a fair scheduler: a step that can be taken is taken.
FairSpec == Spec /\ WF_vars(Next)

\* --------------------------------------------------- PoolSpec: one pool

\* runWorkers on n numbered inputs with any concurrency argument.
PoolInit ==
    /\ raw = <<>>
    /\ mainpc = "pool"
    /\ threads = 0
    /\ urls = <<>>
    /\ \E n \in 0..MaxItems, c \in 0..MaxConc :
         pools = [p \in PoolIds |->
                    IF p = 0 THEN NewPool([i \in 1..n |-> 100 + i], c, "generic", "")
                    ELSE NoPool]
    /\ headCache = <<>>
    /\ headMu = <<>>
    /\ fetched = <<>>
    /\ probes = <<>>
    /\ output = <<>>

PoolNext ==
    \/ PoolStep(0)
    \/ \E w \in Workers(0) : GenericWorker(0, w)

PoolSpec == PoolInit /\ [][PoolNext]_vars

\* The pool under a fair scheduler, with a worker function that returns.
FairPoolSpec == PoolSpec /\ WF_vars(PoolNext)

\* ------------------------------------- ExtractSpec: one URL, one thread

\* The line of the input that names u.
URLString(u) ==
    SchemeHTTPS \o <<":", "/", "/", "h", "/", u.dir, "/">> \o u.file \o
    (IF u.query = <<>> THEN <<>> ELSE <<"?">> \o u.query)

\* URLs that take each way through getDependencies.
ExtractUniverse ==
    { URL("Q", PackageJSONName, <<"v", "=", "1">>),
      URL("U", PackageJSONUpper, <<>>),
      URL("D", PackageJSONName, <<>>),
      URL("M", AppJSName, <<>>),
      URL("J", AppJSName, <<>>),
      URL("R", AppJSName, <<>>),
      URL("T", LibTSName, <<>>) }

\* The scan of one URL that filterManifestURLs accepts, under -t 1.
ExtractInit ==
    /\ raw = <<>>
    /\ mainpc = "start"
    /\ threads = ClampThreads(1)
    /\ urls \in {<<u>> : u \in {x \in ExtractUniverse : Accepts(URLString(x))}}
    /\ pools = [p \in PoolIds |-> NoPool]
    /\ headCache = <<>>
    /\ headMu = <<>>
    /\ fetched = [i \in 1..Len(urls) |-> "none"]
    /\ probes = <<>>
    /\ output = <<>>

ExtractSpec == ExtractInit /\ [][Next]_vars

\* ---------------------------------- FilterSpec: filterManifestURLs alone

\* filterManifestURLs is called on at most MaxLines lines.
FilterInit ==
    /\ raw \in UNION {[1..n -> LineUniverse] : n \in 0..MaxLines}
    /\ mainpc = "filter"
    /\ threads = 0
    /\ urls = <<>>
    /\ pools = [p \in PoolIds |-> NoPool]
    /\ headCache = <<>>
    /\ headMu = <<>>
    /\ fetched = <<>>
    /\ probes = <<>>
    /\ output = <<>>

\* filtered := filterManifestURLs(raw)
FilterCall ==
    /\ mainpc = "filter"
    /\ mainpc' = "filtered"
    /\ urls' = FilterManifestURLs(raw)
    /\ UNCHANGED <<raw, threads, pools, headCache, headMu, fetched, probes, output>>

FilterSpec == FilterInit /\ [][FilterCall]_vars

\* ------------------------------------------------------------ properties

Done == mainpc = "done"

\* The pools that were started.
Started == {p \in PoolIds : pools[p].state /= "idle"}

\* The positions of a worker goroutine inside the call worker(it.t).
InCall == {"call", "wait", "chk1", "head", "chk2", "probe", "ins", "ins2"}

\* The worker invocations of pool p that have started and not returned.
InFlight(p) == {w \in Workers(p) : pools[p].w[w].pc \in InCall}

\* The number of places of sequence s that hold x.
Count(s, x) == Cardinality({k \in 1..Len(s) : s[k] = x})

\* C1: runWorkers never invokes the worker twice on an input, and when it
\* returns it has invoked the worker once on every input and its results hold
\* one entry per input (the generic worker's value for inputs[i] is
\* <<inputs[i]>>), in some order, whichever invocations failed.
C1_OncePerInput ==
    LET P == pools[0]
        N == Len(P.inputs)
    IN  /\ \A i \in 1..N : P.calls[i] <= 1
        /\ P.state = "returned" =>
             /\ \A i \in 1..N : P.calls[i] = 1 /\ P.rets[i] /= <<>>
             /\ Len(P.results) = N
             /\ \A i \in 1..N : Count(P.results, <<P.inputs[i]>>) = 1

\* A pool of three inputs has returned; the worker failed on the first
\* input and on no other.
C1_Witness ==
    /\ pools[0].state = "returned"
    /\ Len(pools[0].inputs) = 3
    /\ pools[0].rets = << <<TRUE>>, <<FALSE>>, <<FALSE>> >>
    /\ Len(pools[0].results) = 3

\* C2: in every pool, the worker invocations in flight number at most the
\* concurrency argument (1 when the argument is below 1).
C2_InFlightBounded ==
    \A p \in Started :
        Cardinality(InFlight(p)) <=
            (IF pools[p].concurrency < 1 THEN 1 ELSE pools[p].concurrency)

\* Two invocations are in flight at once under concurrency 2.
C2_Witness ==
    /\ pools[0].concurrency = 2
    /\ Cardinality(InFlight(0)) = 2

\* C3: under a fair scheduler, with every fetch and probe returning, main
\* ends and every runWorkers invocation that was started has returned.
C3_ScanTerminates ==
    <>(Done /\ \A p \in PoolIds : pools[p].state \in {"idle", "returned"})

\* The scan under -t 2 has ended although one URL could not be fetched and
\* a probe for the other failed: both pools of the nesting have returned.
C3_Witness ==
    /\ Done
    /\ threads = 2
    /\ Len(urls) = 2
    /\ pools[0].state = "returned"
    /\ \E i \in 1..2 : fetched[i] = "fetcherr"
    /\ \E i \in 1..2 :
         /\ pools[i].state = "returned"
         /\ \E j \in 1..Len(pools[i].inputs) : pools[i].rets[j][3] = "error"

\* The accepted URLs by index, and those whose inner pool was started.
URLIds == 1..Len(urls)

Scanned == {i \in URLIds : pools[i].state /= "idle"}

Items(p) == 1..Len(pools[p].inputs)

\* The trimmed, non-empty names getDependencies extracts from urls[i].
NamesOf(i) ==
    {TrimSpace(d) :
        d \in UNION {{r.deps[k] : k \in 1..Len(r.deps)} :
                r \in {x \in GetDependencies(urls[i], Web(urls[i])) : ~x.err}}}
    \ {<<>>}

\* C4: the outer pool works on exactly the accepted URLs and each inner pool
\* on exactly the distinct trimmed names of its URL; no URL and no name is
\* handed to a worker twice, and when main ends every URL and every name has
\* been handed to a worker once and no two printed lines share package and
\* URL.
C4_EachOnce ==
    /\ pools[0].state /= "idle" => pools[0].inputs = urls
    /\ \A p \in Started : \A i \in Items(p) : pools[p].calls[i] <= 1
    /\ \A i \in Scanned :
         /\ \A a, b \in Items(i) : pools[i].inputs[a] = pools[i].inputs[b] => a = b
         /\ {pools[i].inputs[a] : a \in Items(i)} = NamesOf(i)
    /\ Done =>
         /\ \A i \in URLIds : pools[0].calls[i] = 1 /\ fetched[i] /= "none"
         /\ \A i \in Scanned : \A a \in Items(i) :
              pools[i].calls[a] = 1 /\ pools[i].rets[a] /= <<>>
         /\ \A a, b \in 1..Len(output) :
              (output[a].Package = output[b].Package /\ output[a].URL = output[b].URL)
                  => a = b

\* main has ended after scanning the manifest of directory C, whose two maps
\* hold "x" and " x": one name was checked, once, and printed.
C4_Witness ==
    /\ Done
    /\ \E i \in Scanned :
         /\ urls[i].dir = "C"
         /\ pools[i].inputs = <<NameX>>
         /\ pools[i].calls = <<1>>
         /\ \E k \in 1..Len(output) : output[k].URL = urls[i]

\* C5: a probe that failed makes isUnclaimed return (false, 0), and no
\* printed line has status 0 or belongs to a check whose probe failed.
C5_FailedProbeNoFinding ==
    /\ \A i \in Scanned : \A a \in Items(i) :
         (pools[i].rets[a] /= <<>> /\ pools[i].rets[a][3] = "error")
             => (pools[i].rets[a][1] = FALSE /\ pools[i].rets[a][2] = 0)
    /\ \A i \in Scanned : \A k \in 1..Len(pools[i].results) :
         \A v \in 1..Len(pools[i].results[k]) : pools[i].results[k][v].Status /= 0
    /\ \A k \in 1..Len(output) :
         /\ output[k].Status /= 0
         /\ \A i \in Scanned : \A a \in Items(i) :
              (urls[i] = output[k].URL /\ pools[i].inputs[a] = output[k].Package)
                  => pools[i].rets[a][3] /= "error"

\* main has ended after a URL with two names: the probe of one failed, the
\* other name was found unclaimed and is the only printed line.
C5_Witness ==
    /\ Done
    /\ Len(output) = 1
    /\ \E i \in Scanned :
         /\ Len(pools[i].inputs) = 2
         /\ pools[i].rets[1][3] = "error"
         /\ pools[i].rets[2] = <<TRUE, StatusNotFound, "probe">>
         /\ output[1].Package = pools[i].inputs[2]

\* The inner workers that have come back from isUnclaimed with a status
\* (read from the cache or from a response) and not yet handed their result
\* to the collector.
Answered ==
    UNION {{<<p, w>> :
              w \in {v \in Workers(p) :
                       /\ pools[p].w[v].pc \in {"ret", "send"}
                       /\ pools[p].rets[pools[p].w[v].it][3] /= "error"}} :
           p \in Scanned}

\* C6: whenever isUnclaimed returns after a cache hit or a response, it
\* returns the status it observed, and unclaimed exactly when that status is
\* neither 200 nor 302: (true, 404) for 404, (false, 200) for 200 and
\* (false, 302) for 302, in both languages.
C6_UnclaimedIffNot200Or302 ==
    \A pw \in Answered :
        LET p == pw[1]
            st == pools[p].w[pw[2]].st
            a == pools[p].rets[pools[p].w[pw[2]].it]
        IN  /\ pools[p].lang \in {langJS, langPython}
            /\ a[2] = st
            /\ a[1] = (st \notin {200, 302})
            /\ st = 404 => (a[1] = TRUE /\ a[2] = 404)
            /\ st = 200 => (a[1] = FALSE /\ a[2] = 200)
            /\ st = 302 => (a[1] = FALSE /\ a[2] = 302)

\* Three python checks of one package have answered: one (false, 302) from
\* its own response, one (false, 302) from the cache and one (true, 404)
\* from its own response.
C6_Witness ==
    /\ \A i \in URLIds : pools[i].lang = langPython
    /\ \E i, j, k \in Scanned :
         /\ pools[i].rets[1] = <<FALSE, 302, "probe">>
         /\ pools[j].rets[1] = <<FALSE, 302, "hit">>
         /\ pools[k].rets[1] = <<TRUE, 404, "probe">>

\* The isUnclaimed calls for lookup URL k that began while k was not cached.
FirstTimeCalls(k) ==
    UNION {{<<p, i>> :
              i \in {a \in Items(p) :
                       /\ CheckURL(pools[p].inputs[a], pools[p].lang) = k
                       /\ pools[p].began[a] = "absent"}} :
           p \in Scanned}

\* C7, the bound of two: no lookup URL is answered by more than two responses.
C7_AtMostTwoProbes ==
    \A k \in DOMAIN probes : probes[k] <= 2

\* C7, the bound by callers: the responses fetched for a lookup URL number at most the
\* isUnclaimed calls for it that began before it was cached (each such call
\* issues at most one probe, and a call that begins later issues none).
C7_ProbesWithinFirstTimeCalls ==
    \A k \in DOMAIN probes : probes[k] <= Cardinality(FirstTimeCalls(k))

\* Every one of the concurrent first-time calls has fetched its own response.
C7_Witness ==
    \E k \in DOMAIN probes :
        /\ probes[k] = MaxCallers
        /\ Cardinality(FirstTimeCalls(k)) = MaxCallers

\* A step of the isUnclaimed call on inputs[i] of pool p.
StepOf(p, w) == pools'[p].w[w] /= pools[p].w[w]

\* C8: a cache entry is never removed, and an isUnclaimed call that began
\* when its lookup URL was cached never reaches httpHEAD: its cache lookup
\* returns the cached status classified, and its steps issue no probe.
C8_CachedEntryIsUsed ==
    [][ /\ \A k \in DOMAIN headCache : k \in DOMAIN headCache'
        /\ \A p \in Scanned : \A w \in Workers(p) :
             LET i == pools[p].w[w].it
                 k == KeyOf(p, w)
             IN  (i /= 0 /\ pools[p].began[i] = "cached" /\ StepOf(p, w)) =>
                   /\ pools'[p].w[w].pc \in {"chk1", "ret", "send", "recv"}
                   /\ probes' = probes
                   /\ headCache' = headCache
                   /\ pools[p].w[w].pc = "chk1" =>
                        /\ pools'[p].w[w].pc = "ret"
                        /\ pools'[p].rets[i] =
                             <<headCache[k] \notin {200, 302}, headCache[k], "hit">>
      ]_vars

\* A call that began after another URL's call had cached the status 404 has
\* returned (true, 404) from the cache, and one response was fetched in all.
C8_Witness ==
    \E i, j \in Scanned :
        /\ i /= j
        /\ pools[i].rets[1] = <<TRUE, 404, "probe">>
        /\ pools[j].began[1] = "cached"
        /\ pools[j].rets[1] = <<TRUE, 404, "hit">>
        /\ \A k \in DOMAIN probes : probes[k] = 1

\* The printed lines for URL u, in order.
LinesOf(u) == SelectSeq(output, LAMBDA r : r.URL = u)

\* The findings of the inner pool of urls[i] as printed lines.
FindingsOf(i) ==
    LET vs == Flatten(pools[i].results)
    IN  [k \in 1..Len(vs) |->
           [Package |-> vs[k].Package, Status |-> vs[k].Status,
            Language |-> vs[k].Language, URL |-> urls[i]]]

Failed == {i \in URLIds : fetched[i] \in {"fetcherr", "extracterr"}}

\* C9: a URL whose fetch or extraction fails starts no checks, no pool
\* reports an error, and when main ends the failed URL has no printed line
\* while every other URL has exactly the lines of its own findings.
C9_FailureIsLocal ==
    /\ \A i \in Failed : pools[i].state = "idle"
    /\ \A p \in Started : pools[p].firstErr = 0
    /\ Done =>
         /\ \A i \in Failed : LinesOf(urls[i]) = <<>>
         /\ \A i \in URLIds \ Failed :
              LinesOf(urls[i]) = (IF i \in Scanned THEN FindingsOf(i) ELSE <<>>)

\* main has ended; the URL whose result was collected first had failed, and
\* the other URL's finding is printed.
C9_Witness ==
    /\ Done
    /\ Len(urls) = 2
    /\ pools[0].results[1].err
    /\ Len(output) >= 1
    /\ \E i \in Failed : pools[0].results[1].u = urls[i]

\* The lines main is to print: one per check that returned unclaimed.
Expected ==
    UNION {{[Package |-> pools[i].inputs[a], Status |-> pools[i].rets[a][2],
             Language |-> pools[i].lang, URL |-> urls[i]] :
              a \in {b \in Items(i) : pools[i].rets[b] /= <<>> /\ pools[i].rets[b][1]}} :
           i \in {j \in Scanned : fetched[j] = "ok"}}

\* C10: when main ends, the printed lines are exactly the records (p, s, l,
\* u) with u a URL fetched and extracted with language l, p one of its
\* deduplicated names and (true, s) the answer of p's registry check, each
\* printed once.
C10_OutputIsTheFindings ==
    Done =>
        /\ {output[k] : k \in 1..Len(output)} = Expected
        /\ Len(output) = Cardinality(Expected)
        /\ \A i \in Scanned :
             /\ fetched[i] = "ok"
             /\ pools[i].lang \in
                  {r.lang : r \in {x \in GetDependencies(urls[i], Web(urls[i])) : ~x.err}}
        /\ \A k \in 1..Len(output) :
             \E i \in Scanned : \E a \in Items(i) :
                /\ output[k].URL = urls[i]
                /\ output[k].Package = pools[i].inputs[a]
                /\ output[k].Package \in NamesOf(i)
                /\ output[k].Language = pools[i].lang
                /\ pools[i].rets[a][1]
                /\ output[k].Status = pools[i].rets[a][2]

\* A/package.json with one dependency that probes 404 and B/requirements.txt
\* whose two dependencies probe 200: the one printed line is A's.
C10_Witness ==
    /\ Done
    /\ Len(urls) = 2
    /\ urls[1].dir = "B" /\ urls[2].dir = "A"
    /\ pools[1].rets = << <<FALSE, 200, "probe">>, <<FALSE, 200, "probe">> >>
    /\ pools[2].rets = << <<TRUE, 404, "probe">> >>
    /\ output = << [Package |-> NameX, Status |-> 404, Language |-> langJS,
                    URL |-> urls[2]] >>

\* The input whose result stands at place k of the results of the generic
\* pool (its worker returns <<inputs[i]>> and the error numbered i).
ItemAt(k) ==
    CHOOSE i \in 1..Len(pools[0].inputs) : <<pools[0].inputs[i]>> = pools[0].results[k]

\* The places of the collected results whose invocation returned an error.
FailedPlaces == {k \in 1..Len(pools[0].results) : pools[0].rets[ItemAt(k)] = <<TRUE>>}

\* C11: firstErr is nil while no collected result carries an error, and
\* otherwise the error of the earliest collected result that carries one;
\* at return it is nil exactly when no invocation failed, and the results
\* hold one entry per input whatever firstErr is.
C11_FirstErrIsFirstFailure ==
    LET P == pools[0]
        N == Len(P.inputs)
    IN  /\ P.firstErr =
             (IF FailedPlaces = {} THEN 0
              ELSE ItemAt(CHOOSE k \in FailedPlaces : \A j \in FailedPlaces : k <= j))
        /\ P.state = "returned" =>
             /\ P.firstErr = 0 <=> \A i \in 1..N : P.rets[i] = <<FALSE>>
             /\ Len(P.results) = N
             /\ \A i \in 1..N : Count(P.results, <<P.inputs[i]>>) = 1

\* The worker failed on inputs 1 and 2; the result of input 2 was collected
\* first, and runWorkers returned its error.
C11_Witness ==
    /\ pools[0].state = "returned"
    /\ Len(pools[0].inputs) = 3
    /\ pools[0].rets = << <<TRUE>>, <<TRUE>>, <<FALSE>> >>
    /\ pools[0].results[1] = <<pools[0].inputs[2]>>
    /\ pools[0].results[3] = <<pools[0].inputs[1]>>
    /\ pools[0].firstErr = 2

\* C20: under a fair scheduler runWorkers returns, whatever the concurrency
\* argument and the inputs; an argument below 1 starts one worker, the
\* returned results hold an entry for every input, and for no input they
\* are empty and the error is nil.
C20_RunWorkersReturns ==
    /\ <>(pools[0].state = "returned")
    /\ [](LET P == pools[0]
          IN  /\ P.concurrency < 1 => Cardinality(DOMAIN P.w) = 1 /\ P.limit = 1
              /\ P.state = "returned" =>
                    /\ Len(P.results) = Len(P.inputs)
                    /\ P.inputs = <<>> => P.results = <<>> /\ P.firstErr = 0)

\* runWorkers called with concurrency 0 on three inputs has returned three
\* results, all produced by its one worker.
C20_Witness ==
    /\ pools[0].state = "returned"
    /\ pools[0].concurrency = 0
    /\ Len(pools[0].inputs) = 3
    /\ Len(pools[0].results) = 3
    /\ DOMAIN pools[0].w = {1}

\* runWorkers called on no input has returned no result and a nil error.
C20_EmptyReturned ==
    /\ pools[0].state = "returned"
    /\ pools[0].inputs = <<>>
    /\ pools[0].results = <<>>
    /\ pools[0].firstErr = 0

\* The network calls in progress: an outer worker inside getDependencies'
\* httpGET, an inner worker inside httpHEAD's httpClient.Do.
NetCalls ==
    {pw \in UNION {{<<p, w>> : w \in Workers(p)} : p \in Started} :
        \/ pools[pw[1]].kind = "url" /\ pools[pw[1]].w[pw[2]].pc = "call"
        \/ pools[pw[1]].kind = "pkg" /\ pools[pw[1]].w[pw[2]].pc = "probe"}

\* C12: the outer pool and every inner pool run under the same limit
\* *threads, each keeps at most that many invocations in flight, and the
\* network calls in progress over all pools number at most threads x threads.
C12_NestedBound ==
    /\ \A p \in Started :
         /\ pools[p].limit = threads
         /\ Cardinality(InFlight(p)) <= threads
    /\ Cardinality(NetCalls) <= threads * threads

\* Under -t 2 two URLs are scanned at once and three registry probes are in
\* progress, more than the limit of a single pool.
C12_Witness ==
    /\ threads = 2
    /\ Cardinality(InFlight(0)) = 2
    /\ Cardinality(NetCalls) = 3
    /\ \A pw \in NetCalls : pools[pw[1]].kind = "pkg"

\* The printed lines for name a of urls[i].
LinesFor(i, a) ==
    {k \in 1..Len(output) :
        output[k].URL = urls[i] /\ output[k].Package = pools[i].inputs[a]}

\* C13, every outcome but 200 and 302 prints nothing: when main ends, a
\* name whose check ended in a transport failure or in a status other than
\* 200 and 302 has no printed line.
C13_OnlyExistsOrNothing ==
    Done =>
        \A i \in Scanned : \A a \in Items(i) :
            (pools[i].rets[a][3] = "error" \/ pools[i].rets[a][2] \notin {StatusOK, StatusFound})
                => LinesFor(i, a) = {}

\* C13, a failure prints nothing and another status is the finding: when
\* main ends, a name whose check ended in a transport failure or in status
\* 200 or 302 has no printed line, and a name whose check ended in any other
\* status has exactly one, with that status.
C13_FindingIffOtherStatus ==
    Done =>
        \A i \in Scanned : \A a \in Items(i) :
            LET r == pools[i].rets[a]
            IN  IF r[3] = "error" \/ r[2] \in {StatusOK, StatusFound}
                THEN LinesFor(i, a) = {}
                ELSE /\ Cardinality(LinesFor(i, a)) = 1
                     /\ \A k \in LinesFor(i, a) : output[k].Status = r[2]

\* Of the two names of one URL, the probe of the first failed and the
\* second was answered 302: neither is printed; the name of the other URL
\* was answered 500 and is the only printed line.
C13_Witness ==
    /\ Done
    /\ Len(urls) = 2
    /\ pools[1].state = "returned" /\ pools[2].state = "returned"
    /\ pools[1].rets = << <<FALSE, 0, "error">>, <<FALSE, StatusFound, "probe">> >>
    /\ pools[2].rets = << <<TRUE, StatusServerError, "probe">> >>
    /\ Len(output) = 1
    /\ output[1].Status = StatusServerError

\* The lines trimmed, and the places that hold an accepted URL for the
\* first time.
Trimmed == [k \in 1..Len(raw) |-> TrimSpace(raw[k])]

FirstAccepted ==
    {k \in 1..Len(raw) :
        /\ Trimmed[k] /= <<>>
        /\ Accepts(Trimmed[k])
        /\ \A j \in 1..(k - 1) : Trimmed[j] /= Trimmed[k]}

\* C14: what filterManifestURLs returns are trimmed non-empty lines in
\* their input order, without duplicates: every accepted string stands in it
\* once, in the order of the first occurrences, and a rejected string does
\* not stand in it.
C14_FilterKeepsFirstOccurrences ==
    mainpc = "filtered" =>
        /\ \A a, b \in 1..Len(urls) : a /= b => urls[a] /= urls[b]
        /\ \A a \in 1..Len(urls) : \E k \in FirstAccepted : urls[a] = Trimmed[k]
        /\ \A k \in FirstAccepted : \E a \in 1..Len(urls) : urls[a] = Trimmed[k]
        /\ \A a, b \in 1..Len(urls) :
              a < b =>
                \E k, m \in FirstAccepted :
                    k < m /\ urls[a] = Trimmed[k] /\ urls[b] = Trimmed[m]
        /\ \A k \in 1..Len(raw) :
              (Trimmed[k] = <<>> \/ ~Accepts(Trimmed[k])) =>
                  \A a \in 1..Len(urls) : urls[a] /= Trimmed[k]

\* A rejected line, an accepted URL between white space and the same URL
\* again: the URL survives once.
C14_Witness ==
    /\ mainpc = "filtered"
    /\ raw = <<LineInfix, LineManifestSpaced, LineManifest>>
    /\ urls = <<LineManifest>>

\* The URLs whose final path segment is package.json in any case, and that
\* were fetched.
ManifestURLs ==
    {i \in URLIds :
        /\ EqualFold(urls[i].file, PackageJSONName)
        /\ fetched[i] \notin {"none", "fetcherr"}}

\* The trimmed non-empty keys of the two dependency maps of a body.
ManifestKeys(b) == {TrimSpace(d) : d \in b.deps \cup b.dev} \ {<<>>}

\* C15: a fetched URL whose final path segment is package.json, with or
\* without a query string, is read as a manifest: a malformed body is an
\* extraction error, and otherwise the names checked are the keys of the
\* two dependency maps, as js, never as python.
C15_ManifestIsParsedAsManifest ==
    \A i \in ManifestURLs :
        LET b == Web(urls[i])
        IN  /\ Accepts(URLString(urls[i]))
            /\ ~b.ok <=> fetched[i] = "extracterr"
            /\ fetched[i] = "empty" => ManifestKeys(b) = {}
            /\ fetched[i] = "ok" =>
                  /\ pools[i].lang = langJS
                  /\ {pools[i].inputs[a] : a \in Items(i)} = ManifestKeys(b)

\* The manifest fetched from package.json?v=1 was read as a requirement
\* list: its one line is checked as a python package.
C15_Witness ==
    /\ Done
    /\ urls = <<URL("Q", PackageJSONName, <<"v", "=", "1">>)>>
    /\ fetched[1] = "ok"
    /\ pools[1].lang = langPython
    /\ pools[1].inputs = <<ContentManifest>>

\* C15 without a query string: a fetched URL whose last characters after
\* the last "/" are package.json in any case is read as a manifest.
C15_NoQueryIsParsedAsManifest ==
    \A i \in ManifestURLs :
        urls[i].query = <<>> =>
            LET b == Web(urls[i])
            IN  /\ ~b.ok <=> fetched[i] = "extracterr"
                /\ fetched[i] = "ok" =>
                      /\ pools[i].lang = langJS
                      /\ {pools[i].inputs[a] : a \in Items(i)} = ManifestKeys(b)

\* The fetched URLs that pass the code-file suffix test and not the
\* package.json test.
CodeURLs ==
    {i \in URLIds :
        /\ LooksLikeCodeFile(urls[i])
        /\ ~EqualFold(PathBase(urls[i]), PackageJSONName)
        /\ fetched[i] \notin {"none", "fetcherr"}}

\* The names of the inner pool of urls[i].
InputsOf(i) == {pools[i].inputs[a] : a \in Items(i)}

\* C16: a code file in which import analysis finds candidates is checked as
\* js on exactly those candidates; one in which it finds none is read as a
\* requirement list, its names are tagged python, and every lookup made for
\* it goes to the python index.
C16_CodeFileFallsThrough ==
    \A i \in CodeURLs :
        LET b == Web(urls[i])
            names == {TrimSpace(FirstPart(TrimSpace(b.lines[k]))) :
                         k \in {j \in 1..Len(b.lines) :
                                    ~HasPrefix(TrimSpace(b.lines[j]), <<"#">>)}} \ {<<>>}
        IN  IF b.imports /= {}
            THEN /\ fetched[i] = "ok"
                 /\ pools[i].lang = langJS
                 /\ InputsOf(i) = b.imports
            ELSE /\ fetched[i] = "empty" <=> names = {}
                 /\ fetched[i] = "ok" =>
                       /\ pools[i].lang = langPython
                       /\ InputsOf(i) = names
                       /\ Len(urls) = 1 =>
                             \A k \in DOMAIN probes \cup DOMAIN headCache :
                                 k[1] = pypiURL /\ k[2] \in names

\* The file app.js holds "var a = 1;" and no import: the name var was
\* looked up in the python index, answered 404, and printed as python.
C16_Witness ==
    /\ Done
    /\ urls = <<URL("M", AppJSName, <<>>)>>
    /\ pools[1].lang = langPython
    /\ pools[1].inputs = << <<"v", "a", "r">> >>
    /\ headCache = Put(<<>>, <<pypiURL, <<"v", "a", "r">>>>, StatusNotFound)
    /\ Len(output) = 1
    /\ output[1].Language = langPython

\* The match x stands right after a "." or a "/" in the text.
ScopedSkippedByContext(s, x) == x.at > 1 /\ s[x.at - 1] \in {".", "/"}

\* The scoped tokens of a text that stand only after "." or "/" and are not
\* the argument of an import or require: relative-path fragments.
PathFragments(c) ==
    {x.m : x \in {y \in ScopedMatches(c) : ScopedSkippedByContext(c, y)}}
    \ ({x.m : x \in {y \in ScopedMatches(c) : ~ScopedSkippedByContext(c, y)}}
       \cup {TrimSpace(n) : n \in ImportNames(c, 1)})

\* C17: a scoped token that stands right after "." or "/" in a code file is
\* no candidate: it is not among the names checked for the file.
C17_PathFragmentRejected ==
    \A i \in CodeURLs :
        fetched[i] = "ok" /\ pools[i].lang = langJS =>
            InputsOf(i) \cap PathFragments(Content(urls[i])) = {}

\* The file holds import a from "./@s/p": the token @s/p, which stands
\* after "./", was checked in the npm registry and printed.
C17_Witness ==
    /\ Done
    /\ urls = <<URL("R", AppJSName, <<>>)>>
    /\ pools[1].lang = langJS
    /\ pools[1].inputs = << <<"@", "s", "/", "p">> >>
    /\ PathFragments(ContentRelative) = { <<"@", "s", "/", "p">> }
    /\ Len(output) = 1
    /\ output[1].Package = <<"@", "s", "/", "p">>

\* C17, what the code does: every scoped token of a code file is among the
\* names checked for it, whatever stands before it.
C17_EveryScopedTokenKept ==
    \A i \in CodeURLs :
        fetched[i] = "ok" /\ pools[i].lang = langJS =>
            {x.m : x \in ScopedMatches(Content(urls[i]))} \subseteq InputsOf(i)

\* The lookup URL of name a of pool p.
KeyAt(p, a) == CheckURL(pools[p].inputs[a], pools[p].lang)

\* C18: every cached value is a status that a response to a probe of that
\* very lookup URL carried (never 0), and a call answered from the cache
\* finds an entry; the cache changes only when httpHEAD stores the status of
\* the response it received for that lookup URL, so a failed probe leaves it
\* as it was and a later call for a lookup URL that only saw failures finds
\* no entry.
C18_CacheHoldsProbedStatuses ==
    /\ [](\A k \in DOMAIN headCache :
            /\ headCache[k] \in Statuses
            /\ headCache[k] /= 0
            /\ \E p \in Scanned : \E a \in Items(p) :
                  /\ KeyAt(p, a) = k
                  /\ pools[p].rets[a] /= <<>>
                  /\ pools[p].rets[a][3] = "probe"
                  /\ pools[p].rets[a][2] = headCache[k])
    /\ [](\A p \in Scanned : \A a \in Items(p) :
            (pools[p].rets[a] /= <<>> /\ pools[p].rets[a][3] \in {"hit", "hit2"})
                => KeyAt(p, a) \in DOMAIN headCache)
    /\ [][ /\ headCache' /= headCache =>
                 \E p \in Scanned : \E w \in Workers(p) :
                     /\ pools[p].w[w].pc = "ins2"
                     /\ pools[p].w[w].st \in Statuses
                     /\ headCache' = Put(headCache, KeyOf(p, w), pools[p].w[w].st)
           /\ \A q \in Scanned : \A v \in Workers(q) :
                 (pools[q].w[v].pc = "probe" /\ pools'[q].w[v].pc = "ret")
                     => /\ headCache' = headCache
                        /\ pools'[q].rets[pools[q].w[v].it] = <<FALSE, 0, "error">>
       ]_vars

\* Under -t 1 the probe for x failed while the first URL was scanned and
\* nothing was cached; the check of x for the second URL found no entry,
\* probed again, was answered 404, and that status is what the cache holds.
C18_Witness ==
    /\ Done
    /\ threads = 1
    /\ Len(urls) = 2
    /\ pools[1].state = "returned" /\ pools[2].state = "returned"
    /\ KeyAt(1, 1) = KeyAt(2, 1)
    /\ pools[1].rets = << <<FALSE, 0, "error">> >>
    /\ pools[2].began = <<"absent">>
    /\ pools[2].rets = << <<TRUE, StatusNotFound, "probe">> >>
    /\ headCache = Put(<<>>, KeyAt(1, 1), StatusNotFound)

\* No fetch and no probe of the run ended in a transport failure.
NoTransportFailure ==
    /\ \A i \in URLIds : fetched[i] /= "fetcherr"
    /\ \A p \in Scanned : \A a \in Items(p) :
          pools[p].rets[a] /= <<>> => pools[p].rets[a][3] /= "error"

\* Every check of a lookup URL got the one status the cache holds for it:
\* the registry answered each lookup URL with a fixed status.
FixedAnswers ==
    \A p \in Scanned : \A a \in Items(p) :
        pools[p].rets[a] /= <<>> =>
            /\ KeyAt(p, a) \in DOMAIN headCache
            /\ pools[p].rets[a][2] = headCache[KeyAt(p, a)]

\* The language getDependencies gives urls[i] ("" when extraction fails).
LangOf(i) ==
    LET rs == {x \in GetDependencies(urls[i], Web(urls[i])) : ~x.err}
    IN  IF rs = {} THEN "" ELSE (CHOOSE r \in rs : TRUE).lang

\* The records the URLs, their contents and the registry's answers call
\* for: one for each name of each URL whose lookup URL is answered with a
\* status other than 200 and 302.
DeterminedOutput ==
    UNION {{[Package |-> d, Status |-> headCache[CheckURL(d, LangOf(i))],
             Language |-> LangOf(i), URL |-> urls[i]] :
              d \in {n \in NamesOf(i) :
                        /\ CheckURL(n, LangOf(i)) \in DOMAIN headCache
                        /\ headCache[CheckURL(n, LangOf(i))] \notin {StatusOK, StatusFound}}} :
           i \in URLIds}

\* C19: when no fetch or probe failed and each lookup URL was answered with
\* one status, the printed records are, as a set and without repetition,
\* the ones the URLs, their contents and those statuses call for, whatever
\* *threads is and however the workers were scheduled.
C19_OutputSetIsDetermined ==
    (Done /\ NoTransportFailure /\ FixedAnswers) =>
        /\ {output[k] : k \in 1..Len(output)} = DeterminedOutput
        /\ Len(output) = Cardinality(DeterminedOutput)
        /\ \A i \in URLIds : \A n \in NamesOf(i) :
              CheckURL(n, LangOf(i)) \in DOMAIN headCache

\* Under -t 2 two URLs that both name x were scanned at once, both lookups
\* were answered 404 by their own probes, and both records are printed, the
\* second URL's first.
C19_Witness ==
    /\ Done /\ NoTransportFailure /\ FixedAnswers
    /\ threads = 2
    /\ Len(urls) = 2
    /\ pools[1].rets = << <<TRUE, StatusNotFound, "probe">> >>
    /\ pools[2].rets = << <<TRUE, StatusNotFound, "probe">> >>
    /\ Len(output) = 2
    /\ output[1].URL = urls[2]
    /\ output[2].URL = urls[1]

====
